---- MODULE Spec2Model ----
(***************************************************************************)
(* The realtime layer of komrade: the reconnecting WebSocket client of     *)
(* frontend/src/api/ws.ts, the token store of state/authStore.ts and the   *)
(* useRealtime / useGlobalWs hooks of state/realtime.ts that drive it.      *)
(*                                                                         *)
(* Module state of ws.ts: socket, reconnectTimer, listeners, pingInterval. *)
(* The browser side is modelled next to it: the readyState of every        *)
(* WebSocket the module created, the timeouts that are still pending and   *)
(* the intervals that are still running.  The handlers of a WebSocket are  *)
(* closures over the module variables, so the handlers of a socket that    *)
(* has been replaced still act on the current module state.                *)
(***************************************************************************)
EXTENDS Integers, Sequences, FiniteSets, TLC

\* Number of WebSockets a behaviour may create.
MaxSockets == 3
\* Number of distinct listener functions (useRealtime consumers).
NumListeners == 2

\* The number of alerts the sender has raised.
NumAlerts == 2

\* The most getMySos requests in flight at once.
MaxFetches == 2

\* The most recordings started on the chat page.
MaxRecorders == 2

\* The most challenges in a ladder plan, and the last week one may be for.
MaxChallenges == 2

MaxWeek == 2

\* The most calls of searchAddress, and the time the clock may reach (ms).
MaxCalls == 3

MaxTime == 1000

\* The buddies MoodCheckinForm is given.
MaxBuddies == 2

\* setTimeout(..., 400) and `query.trim().length < 3` in searchAddress.
DebounceDelay == 400

MinQueryLength == 3

\* `const TOTAL = 2` in raceBrowserLocations.
Total == 2

VARIABLES
    token,          \* localStorage holds a token (authStore.ts)
    socket,         \* ws.ts `socket`: 0 is null, else the id of a WebSocket
    sockets,        \* readyState of every WebSocket created, by id
    reconnectTimer, \* ws.ts `reconnectTimer`: 0 is null, else a timeout handle
    timers,         \* pending timeouts, oldest first (each is set for 3000 ms)
    pingInterval,   \* ws.ts `pingInterval`: 0 is null, else an interval handle
    intervals,      \* running intervals
    listeners,      \* ws.ts `listeners`: a Set, kept in insertion order
    \* What the step just taken did, for the properties to read; a step that
    \* sends nothing, or handles no message, leaves the idle value.
    lastSend,       \* socket.send('ping'): the socket and its readyState then
    lastData,       \* the data of the message event handled
    invoked,        \* the listeners called for that message, in call order
    missed,         \* the listeners registered at that moment that were not called
    notified,       \* the listeners that passed the event on to their onEvent
    refetch,        \* what those onEvent callbacks called
    handlerThrew,   \* the onmessage handler let an exception escape
    lastOp,         \* the handler that ran, and what it came to
    \* What has happened so far.
    unsubscribed,   \* the listeners whose unsubscribe function has been called
    stopped,        \* disconnectWs() was called and connectWs() not called since
    created,        \* WebSockets created since the last disconnectWs()
    \* The pages and components, one record of state each.
    card,           \* SOSAlertCard, the alert it is given and the server's copy
    hist,           \* SosHistory: the alerts displayed and the requests in flight
    route,          \* a route wrapped in ProtectedRoute and what it rendered
    chat,           \* the chat page (Translation): form, recorder and requests
    ladder,         \* the ladder page: the plan loaded and what it displays
    search,         \* searchAddress: the debounce timer and the promises made
    race,           \* raceBrowserLocations: the two requests and the promise
    detect,         \* detectLocation: browser race, ceiling, IP lookup, outcome
    mood,           \* MoodCheckinForm: the fields and the requests of a submit
    layout          \* AppLayout: mounted or not, and the session it shows

\* The realtime layer.
rtVars == <<token, socket, sockets, reconnectTimer, timers, pingInterval, intervals,
            listeners, lastSend, lastData, invoked, missed, notified, refetch,
            handlerThrew,
            lastOp, unsubscribed, stopped, created>>

\* The pages and components.
uiVars == <<card, hist, route, chat, ladder, search, race, detect, mood, layout>>

\* What a step of one page or component leaves alone.
CardFrame == UNCHANGED <<rtVars, hist, route, chat, ladder, search, race, detect, mood, layout>>
HistFrame == UNCHANGED <<rtVars, card, route, chat, ladder, search, race, detect, mood, layout>>
RouteFrame == UNCHANGED <<card, hist, chat, ladder, search, race, detect, mood, layout>>
ChatFrame == UNCHANGED <<rtVars, card, hist, route, ladder, search, race, detect, mood, layout>>
LadderFrame == UNCHANGED <<rtVars, card, hist, route, chat, search, race, detect, mood, layout>>
SearchFrame == UNCHANGED <<rtVars, card, hist, route, chat, ladder, race, detect, mood, layout>>
RaceFrame == UNCHANGED <<rtVars, card, hist, route, chat, ladder, search, detect, mood, layout>>
DetectFrame == UNCHANGED <<rtVars, card, hist, route, chat, ladder, search, race, mood, layout>>
MoodFrame == UNCHANGED <<rtVars, card, hist, route, chat, ladder, search, race, detect, layout>>
LayoutFrame == UNCHANGED <<card, hist, route, chat, ladder, search, race, detect, mood>>

vars == <<rtVars, uiVars>>

wsVars == <<socket, sockets, reconnectTimer, timers, pingInterval, intervals>>

\* The step sent nothing on any socket.
NoSend == lastSend' = [sock |-> 0, state |-> "NONE"]

\* The step ran handler op, which came to res.
Did(op, res) == lastOp' = <<op, res>>

\* The step handled no message event.
NoMessage ==
    /\ lastData' = "NONE"
    /\ invoked' = <<>>
    /\ missed' = {}
    /\ notified' = {}
    /\ refetch' = {}
    /\ handlerThrew' = FALSE

ListenerIds == 1..NumListeners
SocketIds == 1..Len(sockets)

----------------------------------------------------------------------------
\* authStore.ts

\* A connectWs that does not look at the token.
GetTokenAlways == TRUE

\* getToken(): the stored token, null when there is none.
GetToken == token

----------------------------------------------------------------------------
\* The browser's WebSocket, as far as ws.ts uses it.

Live == {"CONNECTING", "OPEN"}

\* WebSocket.close(): a socket that is connecting or open starts closing; a
\* socket that is closing or closed is left alone.  k = 0 is `socket?.` on null.
WsClose(rs, k) ==
    IF k # 0 /\ rs[k] \in Live THEN [rs EXCEPT ![k] = "CLOSING"] ELSE rs

\* A clearTimeout that cancels nothing.
ClearTimeoutNoop(q, h) == q

\* clearTimeout(h): the timeout no longer fires; nothing happens if it has fired.
ClearTimeout(q, h) == SelectSeq(q, LAMBDA t : t # h)

----------------------------------------------------------------------------
\* ws.ts

\* A guard that forgets the socket that is still connecting.
AlreadyConnectedOnlyOpen == socket # 0 /\ sockets[socket] = "OPEN"

\* A guard that is never true: every call goes on to create a socket.
AlreadyConnectedNever == FALSE

\* The guard of connectWs: a socket exists and is OPEN or CONNECTING.
AlreadyConnected == socket # 0 /\ sockets[socket] \in Live

\* How far connectWs gets: it returns at the first guard ("already"), at the
\* second ("notoken"), or goes on to `new WebSocket(...)` ("created").
ConnectOutcome ==
    IF AlreadyConnected THEN "already"
    ELSE IF ~GetToken THEN "notoken"
    ELSE "created"

\* A cleanup() that forgets the handle without calling clearInterval.
CleanupIntervalsLeak == intervals

\* cleanup(): the interval whose handle is in pingInterval stops.
CleanupIntervals == IF pingInterval # 0 THEN intervals \ {pingInterval} ELSE intervals

\* The body of connectWs, as the module variables it assigns.
ConnectWsBody ==
    IF ConnectOutcome = "created"
    THEN /\ Len(sockets) < MaxSockets
         /\ sockets' = Append(sockets, "CONNECTING")
         /\ socket' = Len(sockets) + 1
         /\ created' = created + 1
    ELSE UNCHANGED <<socket, sockets, created>>

\* connectWs() called by the application (useGlobalWs on mount).
ConnectWs ==
    /\ ConnectWsBody
    /\ Did("connectWs", ConnectOutcome)
    /\ stopped' = FALSE
    /\ UNCHANGED <<token, reconnectTimer, timers, pingInterval, intervals,
                   listeners, unsubscribed>>
    /\ NoSend
    /\ NoMessage

\* disconnectWs() (useGlobalWs on unmount).
DisconnectWs ==
    /\ timers' = IF reconnectTimer # 0 THEN ClearTimeout(timers, reconnectTimer) ELSE timers
    /\ reconnectTimer' = 0
    /\ intervals' = CleanupIntervals
    /\ pingInterval' = 0
    /\ sockets' = WsClose(sockets, socket)
    /\ socket' = 0
    /\ Did("disconnectWs", IF pingInterval \in intervals THEN "cleared" ELSE "idle")
    /\ stopped' = TRUE
    /\ created' = 0
    /\ UNCHANGED <<token, listeners, unsubscribed>>
    /\ NoSend
    /\ NoMessage

\* socket.onopen: the keep-alive interval starts and its handle is stored,
\* whatever pingInterval held before.  s is the socket whose event it is.
OnOpen(s) ==
    /\ pingInterval' = s
    /\ intervals' = intervals \cup {s}

\* An onclose that schedules no reconnect.
OnCloseTimersNone(s) == timers

\* An onclose that schedules a reconnect only when none is pending.
OnCloseTimersIfNone(s) == IF timers = <<>> THEN Append(timers, s) ELSE timers

\* What onclose schedules: one timeout per close event, named after the socket
\* that closed.
OnCloseTimers(s) == Append(timers, s)

\* The open event of socket s: readyState becomes OPEN, then onopen runs.
SocketOpen(s) ==
    /\ sockets[s] = "CONNECTING"
    /\ sockets' = [sockets EXCEPT ![s] = "OPEN"]
    /\ OnOpen(s)
    /\ Did("open", IF s = socket THEN "current" ELSE "replaced")
    /\ UNCHANGED <<token, socket, reconnectTimer, timers, listeners, unsubscribed,
                   stopped, created>>
    /\ NoSend
    /\ NoMessage

\* The connection of socket s ends (the server closed it, it failed, or the
\* closing handshake started by close() finished): readyState becomes CLOSED;
\* when it failed (err) the error event runs onerror, which closes the socket
\* the module variable names at that moment; then the close event runs onclose:
\* cleanup() and a new reconnect timeout, whose handle overwrites reconnectTimer.
SocketClosed(s, err) ==
    /\ sockets[s] \in {"CONNECTING", "OPEN", "CLOSING"}
    /\ LET closed == [sockets EXCEPT ![s] = "CLOSED"]
       IN  sockets' = IF err THEN WsClose(closed, socket) ELSE closed
    /\ intervals' = CleanupIntervals
    /\ pingInterval' = 0
    /\ timers' = OnCloseTimers(s)
    /\ reconnectTimer' = s
    /\ Did("close", IF pingInterval \in intervals THEN "cleared" ELSE "idle")
    /\ UNCHANGED <<token, socket, listeners, unsubscribed, stopped, created>>
    /\ NoSend
    /\ NoMessage

\* The oldest pending timeout fires and calls connectWs.  The handle stays in
\* reconnectTimer: the code does not reset it when the timeout fires.
TimerFire ==
    /\ timers # <<>>
    /\ timers' = Tail(timers)
    /\ ConnectWsBody
    /\ Did("timer", ConnectOutcome)
    /\ UNCHANGED <<token, reconnectTimer, pingInterval, intervals, listeners,
                   unsubscribed, stopped>>
    /\ NoSend
    /\ NoMessage

\* The interval callback: 'ping' is sent on the socket the module variable
\* names, when that socket is OPEN.
PingSends == socket # 0 /\ sockets[socket] = "OPEN"

PingTick(i) ==
    /\ i \in intervals
    /\ lastSend' = IF PingSends
                   THEN [sock |-> socket, state |-> sockets[socket]]
                   ELSE [sock |-> 0, state |-> "NONE"]
    /\ Did("ping", IF PingSends THEN "sent" ELSE "skipped")
    /\ UNCHANGED <<token, stopped, created, listeners, unsubscribed>>
    /\ UNCHANGED wsVars
    /\ NoMessage

----------------------------------------------------------------------------
\* Messages and listeners

\* The text frames a server (or anything on the wire) may send.
Payloads ==
    { "{\"event\":\"sos.created\",\"data\":{}}",
      "{\"event\":\"sos.closed\",\"data\":{}}",
      "{\"event\":\"sos.recipient_updated\",\"data\":{}}",
      "{\"event\":\"pong\"}",
      "null",
      "7",
      "pong" }

\* JSON.parse on those frames: the parsed value, or ok = FALSE when it throws
\* a SyntaxError.  A value is described by its type and, for an object, by the
\* string under its key 'event' ("" when the object has no such key).
JsonParse(d) ==
    CASE d = "{\"event\":\"sos.created\",\"data\":{}}" ->
            [ok |-> TRUE, type |-> "object", event |-> "sos.created"]
      [] d = "{\"event\":\"sos.closed\",\"data\":{}}" ->
            [ok |-> TRUE, type |-> "object", event |-> "sos.closed"]
      [] d = "{\"event\":\"sos.recipient_updated\",\"data\":{}}" ->
            [ok |-> TRUE, type |-> "object", event |-> "sos.recipient_updated"]
      [] d = "{\"event\":\"pong\"}" ->
            [ok |-> TRUE, type |-> "object", event |-> "pong"]
      [] d = "null" ->
            [ok |-> TRUE, type |-> "null", event |-> ""]
      [] d = "7" ->
            [ok |-> TRUE, type |-> "number", event |-> ""]
      [] OTHER ->
            [ok |-> FALSE, type |-> "none", event |-> ""]

\* The eventNames a consumer passes to useRealtime: BuddyInbox (odd ids) and
\* SosHistory (even ids).
EventNames(l) ==
    IF l % 2 = 1 THEN {"sos.created", "sos.closed"}
                 ELSE {"sos.recipient_updated", "sos.closed"}

\* The listener useRealtime registers.  `'event' in evt` throws a TypeError
\* when evt is not an object (null, a number, a string, a boolean).
ListenerThrows(l, v) == v.type # "object"

\* A listener that passes every event on, whatever its name.
ListenerNotifiesAll(l, v) == v.type = "object" /\ v.event # ""

\* The listener calls onEventRef.current(evt).
ListenerNotifies(l, v) ==
    v.type = "object" /\ v.event # "" /\ v.event \in EventNames(l)

\* listeners.forEach((fn) => fn(parsed)): the listeners are called in insertion
\* order; an exception thrown by one ends the iteration.
RECURSIVE ForEach(_, _)
ForEach(ls, v) ==
    IF ls = <<>>
    THEN [calls |-> <<>>, notified |-> {}, threw |-> FALSE]
    ELSE LET l == Head(ls)
         IN  IF ListenerThrows(l, v)
             THEN [calls |-> <<l>>, notified |-> {}, threw |-> TRUE]
             ELSE LET r == ForEach(Tail(ls), v)
                  IN  [calls |-> <<l>> \o r.calls,
                       notified |-> (IF ListenerNotifies(l, v) THEN {l} ELSE {})
                                        \cup r.notified,
                       threw |-> r.threw]

\* The try block of onmessage: JSON.parse, then the forEach.
TryDispatch(ls, d) ==
    LET p == JsonParse(d)
    IN  IF p.ok THEN ForEach(ls, p)
        ELSE [calls |-> <<>>, notified |-> {}, threw |-> TRUE]

\* A handler with no try/catch: what is thrown leaves the handler.
EscapesUncaught(threw) == threw

\* `catch { }` around it: whatever was thrown is swallowed.
Escapes(threw) == FALSE

Range(q) == {q[i] : i \in 1..Len(q)}

\* A callback that does nothing with the event.
OnEventIdle(l) == "none"

\* The onEvent callback of the consumer: BuddyInbox calls load(), which calls
\* getIncomingAlerts(); SosHistory calls getMySos(50).
OnEvent(l) == IF l % 2 = 1 THEN "getIncomingAlerts" ELSE "getMySos"

\* Both functions throw 'Not authenticated' before any request when no token
\* is stored, and send their GET request otherwise.
Refetch(l) == [by |-> l, call |-> OnEvent(l), sent |-> GetToken]

\* A message event on socket s with data d runs onmessage.
OnMessage(s, d) ==
    /\ sockets[s] = "OPEN"
    /\ LET r == TryDispatch(listeners, d)
       IN  /\ lastData' = d
           /\ invoked' = r.calls
           /\ missed' = Range(listeners) \ Range(r.calls)
           /\ notified' = r.notified
           /\ refetch' = {Refetch(l) : l \in r.notified}
           /\ handlerThrew' = Escapes(r.threw)
    /\ Did("message", IF JsonParse(d).ok THEN "parsed" ELSE "dropped")
    /\ UNCHANGED <<token, stopped, created, listeners, unsubscribed>>
    /\ NoSend
    /\ UNCHANGED wsVars

\* onWsEvent(listener): listeners.add(listener).
OnWsEvent(ls, l) == IF l \in Range(ls) THEN ls ELSE Append(ls, l)

\* An unsubscribe that empties the set (listeners.clear()).
UnsubClear(ls, l) == <<>>

\* The function onWsEvent returns: listeners.delete(listener).
Unsub(ls, l) == SelectSeq(ls, LAMBDA x : x # l)

\* The effect of useRealtime when a consumer mounts: connectWs(), then
\* onWsEvent with a new listener function (every run of the effect makes a
\* new one, so an id is used once).
UseRealtimeMount(l) ==
    /\ l \notin Range(listeners) \cup unsubscribed
    /\ ConnectWsBody
    /\ Did("mount", ConnectOutcome)
    /\ stopped' = FALSE
    /\ listeners' = OnWsEvent(listeners, l)
    /\ UNCHANGED <<token, reconnectTimer, timers, pingInterval, intervals,
                   unsubscribed>>
    /\ NoSend
    /\ NoMessage

\* Its cleanup when the consumer unmounts: unsub(), and no disconnect.
UseRealtimeUnmount(l) ==
    /\ l \in Range(listeners)
    /\ listeners' = Unsub(listeners, l)
    /\ unsubscribed' = unsubscribed \cup {l}
    /\ Did("unmount", "unsub")
    /\ UNCHANGED <<token, stopped, created>>
    /\ NoSend
    /\ UNCHANGED wsVars
    /\ NoMessage

\* setToken (login, register) and clearToken (logout): the item in
\* localStorage is written or removed.
SetToken ==
    /\ ~token
    /\ token' = TRUE
    /\ route' = [route EXCEPT !.item = "fake-token"]
    /\ Did("setToken", "stored")
    /\ UNCHANGED <<stopped, created, listeners, unsubscribed>>
    /\ NoSend
    /\ UNCHANGED wsVars
    /\ NoMessage

ClearToken ==
    /\ token
    /\ token' = FALSE
    /\ route' = [route EXCEPT !.item = "null"]
    /\ Did("clearToken", "removed")
    /\ UNCHANGED <<stopped, created, listeners, unsubscribed>>
    /\ NoSend
    /\ UNCHANGED wsVars
    /\ NoMessage

----------------------------------------------------------------------------
\* SOSAlertCard (components/SOSAlertCard.tsx), with the inbox that gives it
\* the alert and the server that holds the alert.

\* What the ETA field may hold (an <input type="number">).
EtaInputs == {"", "0", "15", "120", "121"}

\* parseInt(eta, 10) on those.
ParseInt(e) ==
    CASE e = "0" -> 0
      [] e = "15" -> 15
      [] e = "120" -> 120
      [] e = "121" -> 121

\* `eta ? parseInt(eta, 10) : undefined`, and the range check on it.
EtaRejected(e) == e # "" /\ (ParseInt(e) < 1 \/ ParseInt(e) > 120)

CardInit ==
    [alert_status |-> "OPEN", my_status |-> "NOTIFIED",
     showForm |-> FALSE, loading |-> FALSE, error |-> "none", eta |-> "",
     pending |-> "none", shownAtSubmit |-> "none",
     srvStatus |-> "OPEN", srvMy |-> "NOTIFIED"]

\* A card that shows its form whatever the status of the alert.
ActionsRenderedAlways == TRUE

IsClosed == card.alert_status = "CLOSED"
HasResponded == card.my_status \in {"ACCEPTED", "DECLINED"}

\* `{!isClosed && ...}`: the block with the Respond button and the form.
ActionsRendered == ~IsClosed

\* The Respond / Change Response button: setShowForm(true).
CardShowForm ==
    /\ ActionsRendered /\ ~card.showForm
    /\ card' = [card EXCEPT !.showForm = TRUE]
    /\ CardFrame

\* Cancel: setShowForm(false); setError(null).
CardCancel ==
    /\ ActionsRendered /\ card.showForm
    /\ card' = [card EXCEPT !.showForm = FALSE, !.error = "none"]
    /\ CardFrame

\* Typing into the ETA field.
CardSetEta(e) ==
    /\ ActionsRendered /\ card.showForm /\ card.eta # e
    /\ card' = [card EXCEPT !.eta = e]
    /\ CardFrame

\* Accept or Decline (enabled while not loading): handleRespond(status) up to
\* its await.  An ETA out of range ends it with an error; otherwise
\* respondToSos is called.
HandleRespond(status) ==
    /\ ActionsRendered /\ card.showForm /\ ~card.loading
    /\ card' = IF EtaRejected(card.eta)
               THEN [card EXCEPT !.error = "eta", !.loading = FALSE]
               ELSE [card EXCEPT !.error = "none", !.loading = TRUE,
                                 !.pending = status,
                                 !.shownAtSubmit = card.alert_status]
    /\ CardFrame

\* The server answers respondToSos: it records the response while the alert is
\* open, replacing an earlier one, and refuses once the alert is closed.
ServerRespond(c) ==
    IF c.srvStatus = "OPEN"
    THEN [c EXCEPT !.srvMy = c.pending, !.pending = "none"]
    ELSE [c EXCEPT !.pending = "none", !.error = "server"]

\* handleRespond after the await: onResponded() on success, setError on
\* failure, setLoading(false) in both cases.
CardRespondSettles ==
    /\ card.pending # "none"
    /\ card' = [ServerRespond(card) EXCEPT !.loading = FALSE]
    /\ CardFrame

\* The request fails on the way (network, no token).
CardRespondFails ==
    /\ card.pending # "none"
    /\ card' = [card EXCEPT !.pending = "none", !.error = "server", !.loading = FALSE]
    /\ CardFrame

\* The inbox re-fetches the alerts and gives the card the server's copy.
CardRefresh ==
    /\ <<card.alert_status, card.my_status>> # <<card.srvStatus, card.srvMy>>
    /\ card' = [card EXCEPT !.alert_status = card.srvStatus, !.my_status = card.srvMy]
    /\ CardFrame

\* The sender closes the alert.
SenderCloses ==
    /\ card.srvStatus = "OPEN"
    /\ card' = [card EXCEPT !.srvStatus = "CLOSED"]
    /\ CardFrame

NextCard ==
    \/ CardShowForm
    \/ CardCancel
    \/ \E e \in EtaInputs : CardSetEta(e)
    \/ \E st \in {"ACCEPTED", "DECLINED"} : HandleRespond(st)
    \/ CardRespondSettles
    \/ CardRespondFails
    \/ CardRefresh
    \/ SenderCloses

----------------------------------------------------------------------------
\* SosHistory: the sender's list of alerts

AlertIds == 1..NumAlerts

\* The empty list: no alert is in it.
NoAlerts == [a \in AlertIds |-> "ABSENT"]

\* useState([]) and useState(true); nothing is in flight; the server holds
\* the sender's alerts, all open.
HistInit ==
    [mounted |-> FALSE, loading |-> TRUE,
     alerts |-> NoAlerts,
     fetches |-> {}, closes |-> {},
     srv |-> [a \in AlertIds |-> "OPEN"],
     closedShown |-> {}]

\* The Close button is rendered in the list `open`, the alerts whose status
\* is not CLOSED, once the page is no longer loading.
CloseOffered(a) == ~hist.loading /\ hist.alerts[a] = "OPEN"

\* getMySos(50) is called: a request is in flight, not yet served.
StartFetch(h, kind) ==
    [h EXCEPT !.fetches = h.fetches \cup {[kind |-> kind, served |-> FALSE, snap |-> NoAlerts]}]

\* useEffect(() => { load() }, []).
HistMount ==
    /\ ~hist.mounted
    /\ hist' = [StartFetch(hist, "load") EXCEPT !.mounted = TRUE]
    /\ HistFrame

\* The useRealtime callback: an event of the page's list starts
\* getMySos(50).then(setAlerts).
HistOnEvent ==
    /\ hist.mounted
    /\ Cardinality(StartFetch(hist, "event").fetches) <= MaxFetches
    /\ hist' = StartFetch(hist, "event")
    /\ HistFrame

\* The server answers a getMySos request with the alerts as they are then.
ServerList(f) ==
    /\ f \in hist.fetches /\ ~f.served
    /\ hist' = [hist EXCEPT !.fetches =
                    (@ \ {f}) \cup {[f EXCEPT !.served = TRUE, !.snap = hist.srv]}]
    /\ HistFrame

\* setAlerts(data): the list is replaced by the answer.
SetAlerts(h, data) == [h EXCEPT !.alerts = data]

\* The answer of a getMySos request arrives: setAlerts(data), and
\* setLoading(false) when it was load() that asked.
FetchResolves(f) ==
    /\ f \in hist.fetches /\ f.served
    /\ hist' = [SetAlerts(hist, f.snap) EXCEPT
                    !.fetches = @ \ {f},
                    !.loading = IF f.kind = "load" THEN FALSE ELSE @,
                    !.closedShown = {a \in @ : f.snap[a] = "CLOSED"}]
    /\ HistFrame

\* A getMySos request fails: the error is ignored; load() still ends with
\* setLoading(false).
FetchFails(f) ==
    /\ f \in hist.fetches
    /\ hist' = [hist EXCEPT !.fetches = @ \ {f},
                            !.loading = IF f.kind = "load" THEN FALSE ELSE @]
    /\ HistFrame

\* handleClose(sosId) up to its await: closeSos(sosId) is in flight.
HandleClose(a) ==
    /\ CloseOffered(a)
    /\ [id |-> a, served |-> FALSE] \notin hist.closes
    /\ hist' = [hist EXCEPT !.closes = @ \cup {[id |-> a, served |-> FALSE]}]
    /\ HistFrame

\* The server closes the alert and answers with the closed alert.
ServerClose(c) ==
    /\ c \in hist.closes /\ ~c.served
    /\ hist' = [hist EXCEPT !.srv[c.id] = "CLOSED",
                            !.closes = (@ \ {c}) \cup {[c EXCEPT !.served = TRUE]}]
    /\ HistFrame

\* prev.map(a => a.id === sosId ? updated : a)
ReplaceAlert(prev, sosId, updated) ==
    [a \in AlertIds |-> IF a = sosId /\ prev[a] # "ABSENT" THEN updated ELSE prev[a]]

\* handleClose after the await: the alert of that id is replaced by the
\* server's copy.
CloseResolves(c) ==
    /\ c \in hist.closes /\ c.served
    /\ hist' = [hist EXCEPT !.alerts = ReplaceAlert(@, c.id, "CLOSED"),
                            !.closes = @ \ {c},
                            !.closedShown = IF hist.alerts[c.id] # "ABSENT"
                                            THEN @ \cup {c.id} ELSE @]
    /\ HistFrame

\* closeSos rejects: the error is ignored.
CloseFails(c) ==
    /\ c \in hist.closes
    /\ hist' = [hist EXCEPT !.closes = @ \ {c}]
    /\ HistFrame

NextHist ==
    \/ HistMount
    \/ HistOnEvent
    \/ \E f \in hist.fetches : ServerList(f)
    \/ \E f \in hist.fetches : FetchResolves(f)
    \/ \E f \in hist.fetches : FetchFails(f)
    \/ \E a \in AlertIds : HandleClose(a)
    \/ \E c \in hist.closes : ServerClose(c)
    \/ \E c \in hist.closes : CloseResolves(c)
    \/ \E c \in hist.closes : CloseFails(c)

----------------------------------------------------------------------------
\* The route table and ProtectedRoute

\* What localStorage may hold under the token key: nothing, or a string.
TokenItems == {"null", "", "fake-token"}

\* `!!getToken()`: null and the empty string are falsy.
Truthy(v) == v \notin {"null", ""}

\* isAuthenticated() for a page that is never let in.
IsAuthenticatedNever(item) == FALSE

\* isAuthenticated()
IsAuthenticated(item) == Truthy(item)

\* The routes, and the page each one names.
Paths == {"/", "/login", "/register", "/buddies", "/inbox", "/settings",
          "/profile", "/sos-history", "/map"}

PageOf(p) ==
    CASE p = "/" -> "Dashboard"
      [] p = "/login" -> "Login"
      [] p = "/register" -> "Register"
      [] p = "/buddies" -> "Buddies"
      [] p = "/inbox" -> "BuddyInbox"
      [] p = "/settings" -> "Settings"
      [] p = "/profile" -> "Profile"
      [] p = "/sos-history" -> "SosHistory"
      [] p = "/map" -> "BuddyMap"

\* The routes whose element wraps the page in ProtectedRoute.
Protected(p) == p \notin {"/login", "/register"}

\* No location yet, nothing rendered, no lazy page imported.
RouteInit(tok) ==
    [item |-> IF tok THEN "fake-token" ELSE "null",
     path |-> "none", asked |-> "none", returned |-> "none",
     shown |-> "none", loaded |-> {}]

\* <Suspense fallback={<div>Loading...</div>}> around a lazy page.
Shown(r, page) == IF page \in r.loaded THEN page ELSE "Loading..."

\* ProtectedRoute: its children when isAuthenticated(), else a redirect to
\* /login.
ProtectedRoute(r, p) ==
    IF IsAuthenticated(r.item)
    THEN [r EXCEPT !.path = p, !.asked = p, !.returned = "children",
                   !.shown = Shown(r, PageOf(p))]
    ELSE [r EXCEPT !.path = "/login", !.asked = p, !.returned = "redirect",
                   !.shown = Shown(r, "Login")]

\* The router renders the element of the route at path p.
Navigate(p) ==
    /\ route' = IF Protected(p)
                THEN ProtectedRoute(route, p)
                ELSE [route EXCEPT !.path = p, !.asked = p, !.returned = "page",
                                   !.shown = Shown(route, PageOf(p))]
    /\ UNCHANGED rtVars
    /\ RouteFrame

\* The import() of the lazy page that is being waited for resolves.
LazyLoaded ==
    /\ route.shown = "Loading..."
    /\ route' = [route EXCEPT !.loaded = @ \cup {PageOf(route.path)},
                              !.shown = PageOf(route.path)]
    /\ UNCHANGED rtVars
    /\ RouteFrame

\* setToken(v): localStorage.setItem.
StoreItem(v) ==
    /\ route.item # v
    /\ route' = [route EXCEPT !.item = v]
    /\ token' = Truthy(v)
    /\ Did("setToken", "stored")
    /\ UNCHANGED <<stopped, created, listeners, unsubscribed>>
    /\ NoSend
    /\ UNCHANGED wsVars
    /\ NoMessage
    /\ RouteFrame

\* clearToken(): localStorage.removeItem.
RemoveItem ==
    /\ route.item # "null"
    /\ route' = [route EXCEPT !.item = "null"]
    /\ token' = FALSE
    /\ Did("clearToken", "removed")
    /\ UNCHANGED <<stopped, created, listeners, unsubscribed>>
    /\ NoSend
    /\ UNCHANGED wsVars
    /\ NoMessage
    /\ RouteFrame

NextRoute ==
    \/ \E p \in Paths : Navigate(p)
    \/ LazyLoaded
    \/ \E v \in TokenItems \ {"null"} : StoreItem(v)
    \/ RemoveItem

----------------------------------------------------------------------------
\* The chat page (pages/Translation.tsx)

\* What the user may type into the message field: nothing, blanks, a word.
\* A message is the sequence of its words; " " stands for white space.
TypedValues == {<<>>, <<" ">>, <<"hello">>}

\* String.prototype.trim()
RECURSIVE TrimLeft(_)
TrimLeft(m) == IF m # <<>> /\ Head(m) = " " THEN TrimLeft(Tail(m)) ELSE m

RECURSIVE TrimRight(_)
TrimRight(m) ==
    IF m # <<>> /\ m[Len(m)] = " " THEN TrimRight(SubSeq(m, 1, Len(m) - 1)) ELSE m

Trim(m) == TrimRight(TrimLeft(m))

\* The useState initial values and empty refs; the loadHistory() of the mount
\* effect is in flight.
ChatInit ==
    [message |-> <<>>, loading |-> FALSE, error |-> "none", result |-> "none",
     history |-> "none", submit |-> "idle",
     recording |-> FALSE, transcribing |-> FALSE,
     recorders |-> <<>>, mediaRecorderRef |-> 0, streamRef |-> 0,
     chunks |-> FALSE, op |-> "none", rec |-> 0]

\* The step is handler `op`, run for recorder r (0 when it concerns none).
ChatDid(c, op, r) == [c EXCEPT !.op = op, !.rec = r]

RecorderIds == 1..Len(chat.recorders)

\* onChange of the textarea: setMessage(e.target.value).
ChatType(v) ==
    /\ chat.message # v
    /\ chat' = ChatDid([chat EXCEPT !.message = v], "type", 0)
    /\ ChatFrame

\* The loadHistory() of the mount effect settles: the items, or [] on failure.
MountHistorySettles(ok) ==
    /\ chat.history = "none"
    /\ chat' = ChatDid([chat EXCEPT !.history = IF ok THEN "loaded" ELSE "empty"],
                       "history", 0)
    /\ ChatFrame

\* loadFromHistory(item): a click on an item of the history list.
LoadFromHistory ==
    /\ chat.history = "loaded"
    /\ chat' = ChatDid([chat EXCEPT !.message = <<"old">>, !.result = "old"],
                       "loadFromHistory", 0)
    /\ ChatFrame

\* The submit button: disabled={loading || transcribing || !message.trim()}.
SubmitEnabled == ~chat.loading /\ ~chat.transcribing /\ Trim(chat.message) # <<>>

\* handleSubmit up to `await translateText({ message })`.
HandleSubmit ==
    /\ SubmitEnabled
    /\ chat' = ChatDid([chat EXCEPT !.error = "none", !.loading = TRUE,
                                    !.submit = "translating"], "submit", 0)
    /\ ChatFrame

\* translateText resolves: setResult(data), then loadHistory() is awaited.
TranslateResolves ==
    /\ chat.submit = "translating"
    /\ chat' = ChatDid([chat EXCEPT !.result = "answer", !.submit = "reloading"],
                       "translated", 0)
    /\ ChatFrame

\* A catch block that also empties the field.
SubmitCatchClearing(c) == [c EXCEPT !.error = "translate", !.message = <<>>]

\* catch (err) { setError(...) }
SubmitCatch(c) == [c EXCEPT !.error = "translate"]

\* translateText rejects: the catch block, then finally setLoading(false).
TranslateRejects ==
    /\ chat.submit = "translating"
    /\ chat' = ChatDid([SubmitCatch(chat) EXCEPT !.loading = FALSE, !.submit = "idle"],
                       "translateFailed", 0)
    /\ ChatFrame

\* The awaited loadHistory() settles (it catches its own failure and sets
\* []); then setMessage('') and, in finally, setLoading(false).
SubmitHistorySettles(ok) ==
    /\ chat.submit = "reloading"
    /\ chat' = ChatDid([chat EXCEPT !.history = IF ok THEN "loaded" ELSE "empty",
                                    !.message = <<>>, !.loading = FALSE,
                                    !.submit = "idle"], "submitted", 0)
    /\ ChatFrame

\* The record button: disabled={transcribing || loading}; it starts when
\* `recording` is false and stops when it is true.
RecordEnabled == ~chat.transcribing /\ ~chat.loading

\* startRecording up to `await getUserMedia`, or to its early return when the
\* browser has no getUserMedia or no MediaRecorder.
StartRecording(supported) ==
    /\ RecordEnabled /\ ~chat.recording
    /\ Len(chat.recorders) < MaxRecorders
    /\ chat' = ChatDid(
          IF supported
          THEN [chat EXCEPT !.error = "none", !.message = <<>>,
                            !.recorders = Append(@, [state |-> "asking", live |-> FALSE])]
          ELSE [chat EXCEPT !.error = "unsupported", !.message = <<>>],
          "startRecording", 0)
    /\ ChatFrame

\* getUserMedia resolves for recorder r: the stream and the recorder are put
\* in the refs, chunksRef is emptied, recorder.start(), setRecording(true).
GetUserMediaResolves(r) ==
    /\ chat.recorders[r].state = "asking"
    /\ chat' = ChatDid([chat EXCEPT !.recorders[r] = [state |-> "recording", live |-> TRUE],
                                    !.streamRef = r, !.mediaRecorderRef = r,
                                    !.chunks = FALSE, !.recording = TRUE],
                       "recorderStarted", r)
    /\ ChatFrame

\* getUserMedia rejects (permission refused, no device): setError.
GetUserMediaRejects(r) ==
    /\ chat.recorders[r].state = "asking"
    /\ chat' = ChatDid([chat EXCEPT !.recorders[r].state = "gone", !.error = "mic"],
                       "micFailed", r)
    /\ ChatFrame

\* stopRecording: recorder.stop() when the recorder in the ref is not
\* inactive, else setRecording(false).
StopRecording ==
    /\ RecordEnabled /\ chat.recording
    /\ LET r == chat.mediaRecorderRef
       IN  chat' = ChatDid(
              IF r # 0 /\ chat.recorders[r].state = "recording"
              THEN [chat EXCEPT !.recorders[r].state = "inactive"]
              ELSE [chat EXCEPT !.recording = FALSE],
              "stopRecording", r)
    /\ ChatFrame

\* streamRef.current.getTracks().forEach(track => track.stop()), and the ref
\* is emptied.  A recorder whose tracks have all ended becomes inactive.
StopTracks(c) ==
    IF c.streamRef = 0 THEN c
    ELSE LET s == c.streamRef
         IN  [c EXCEPT !.recorders[s] =
                            [state |-> IF @.state = "recording" THEN "inactive" ELSE @.state,
                             live |-> FALSE],
                       !.streamRef = 0]

\* The recorder r, made inactive, fires dataavailable (with data or with an
\* empty blob) and then stop: setRecording(false), the tracks of the stream
\* in the ref are stopped, and with chunks at hand setTranscribing(true) and
\* transcribeAudio(file) is awaited.
OnStop(r, data) ==
    /\ chat.recorders[r].state = "inactive"
    /\ LET c == StopTracks([chat EXCEPT !.recording = FALSE,
                                        !.chunks = @ \/ data])
       IN  chat' = ChatDid(
              IF c.chunks
              THEN [c EXCEPT !.recorders[r].state = "transcribing",
                             !.transcribing = TRUE]
              ELSE [c EXCEPT !.recorders[r].state = "gone"],
              "onstop", r)
    /\ ChatFrame

\* setMessage(prev => prev.trim() ? `${prev.trim()} ${transcript}` : transcript)
AddTranscript(prev) ==
    IF Trim(prev) # <<>> THEN Trim(prev) \o <<"spoken">> ELSE <<"spoken">>

\* transcribeAudio resolves: the transcript goes into the field; finally
\* setTranscribing(false) and chunksRef is emptied.
TranscribeResolves(r) ==
    /\ chat.recorders[r].state = "transcribing"
    /\ chat' = ChatDid([chat EXCEPT !.message = AddTranscript(@),
                                    !.transcribing = FALSE, !.chunks = FALSE,
                                    !.recorders[r].state = "gone"],
                       "transcribed", r)
    /\ ChatFrame

\* transcribeAudio rejects: setError; the same finally block.
TranscribeRejects(r) ==
    /\ chat.recorders[r].state = "transcribing"
    /\ chat' = ChatDid([chat EXCEPT !.error = "stt",
                                    !.transcribing = FALSE, !.chunks = FALSE,
                                    !.recorders[r].state = "gone"],
                       "transcribeFailed", r)
    /\ ChatFrame

NextChat ==
    \/ \E v \in TypedValues : ChatType(v)
    \/ \E ok \in BOOLEAN : MountHistorySettles(ok)
    \/ LoadFromHistory
    \/ HandleSubmit
    \/ TranslateResolves
    \/ TranslateRejects
    \/ \E ok \in BOOLEAN : SubmitHistorySettles(ok)
    \/ \E supported \in BOOLEAN : StartRecording(supported)
    \/ \E r \in RecorderIds : GetUserMediaResolves(r)
    \/ \E r \in RecorderIds : GetUserMediaRejects(r)
    \/ StopRecording
    \/ \E r \in RecorderIds, data \in BOOLEAN : OnStop(r, data)
    \/ \E r \in RecorderIds : TranscribeResolves(r)
    \/ \E r \in RecorderIds : TranscribeRejects(r)

----------------------------------------------------------------------------
\* The ladder page (pages/Ladder.tsx; app/ladder/page.tsx computes the same
\* XP and streak from savedPlan)

Weeks == 1..MaxWeek

\* The lists of at most n elements of S.
SeqsUpTo(S, n) == UNION {[1..k -> S] : k \in 0..n}

\* The plans a response may carry: challenges in any order of weeks, weeks
\* repeated or missing, completed or not.
Plans == SeqsUpTo([week : Weeks, completed : BOOLEAN], MaxChallenges)

\* The ladders generateLadder may answer with.
GeneratedWeeks == {<<>>, <<1, 2>>, <<2, 1>>}

NoPlan == [some |-> FALSE, challenges |-> <<>>]
NoLadder == [some |-> FALSE, weeks |-> <<>>]

\* displayedChallenges: the plan's challenges, else the generated weeks with
\* completed: false, else [].
DisplayedChallenges(l) ==
    IF l.plan.some THEN l.plan.challenges
    ELSE IF ~l.generated.some THEN <<>>
    ELSE [i \in 1..Len(l.generated.weeks) |->
            [week |-> l.generated.weeks[i], completed |-> FALSE]]

\* xp: displayedChallenges.filter(c => c.completed).length * 100
Xp(cs) == Len(SelectSeq(cs, LAMBDA c : c.completed)) * 100

\* Insertion of c after the elements of the sorted list whose week is not
\* greater: the sort is stable.
RECURSIVE InsertByWeek(_, _)
InsertByWeek(sorted, c) ==
    IF sorted = <<>> THEN <<c>>
    ELSE IF c.week < Head(sorted).week THEN <<c>> \o sorted
    ELSE <<Head(sorted)>> \o InsertByWeek(Tail(sorted), c)

\* [...displayedChallenges].sort((a, b) => a.week - b.week)
RECURSIVE SortByWeek(_)
SortByWeek(cs) ==
    IF cs = <<>> THEN <<>>
    ELSE InsertByWeek(SortByWeek(SubSeq(cs, 1, Len(cs) - 1)), cs[Len(cs)])

\* for (const c of sorted) { if (c.completed) count += 1; else break }
RECURSIVE CountWhileCompleted(_)
CountWhileCompleted(sorted) ==
    IF sorted = <<>> \/ ~Head(sorted).completed THEN 0
    ELSE 1 + CountWhileCompleted(Tail(sorted))

\* A streak counted in the order the challenges come in.
StreakUnsorted(cs) == CountWhileCompleted(cs)

\* streak
Streak(cs) == CountWhileCompleted(SortByWeek(cs))

\* A render: XP and streak are computed from the state.
LadderRender(l) ==
    [l EXCEPT !.xp = Xp(DisplayedChallenges(l)),
              !.streak = Streak(DisplayedChallenges(l))]

LadderInit ==
    LadderRender([loading |-> FALSE, error |-> FALSE, pending |-> "none",
                  generated |-> NoLadder, plan |-> NoPlan, xp |-> 0, streak |-> 0])

\* Each handler up to its await: setError(null); setLoading(true).
LadderCall(kind) ==
    ladder' = LadderRender([ladder EXCEPT !.error = FALSE, !.loading = TRUE,
                                          !.pending = kind])

\* Generate Ladder (disabled while loading).
OnGenerate ==
    /\ ~ladder.loading
    /\ LadderCall("generate")
    /\ LadderFrame

\* generateLadder resolves: setGenerated(data); finally setLoading(false).
GenerateSettles(ws) ==
    /\ ladder.pending = "generate"
    /\ ladder' = LadderRender([ladder EXCEPT !.generated = [some |-> TRUE, weeks |-> ws],
                                             !.loading = FALSE, !.pending = "none"])
    /\ LadderFrame

\* Save Plan (disabled while loading or with nothing generated).
OnSave ==
    /\ ~ladder.loading /\ ladder.generated.some
    /\ LadderCall("save")
    /\ LadderFrame

\* Load Latest.
OnLoadLatest ==
    /\ ~ladder.loading
    /\ LadderCall("load")
    /\ LadderFrame

\* Complete, shown for a challenge of the plan that is not completed.
OnComplete(i) ==
    /\ ~ladder.loading /\ ladder.plan.some
    /\ i \in 1..Len(ladder.plan.challenges)
    /\ ~ladder.plan.challenges[i].completed
    /\ LadderCall("complete")
    /\ LadderFrame

\* saveLadderPlan, getLatestLadderPlan or completeLadderChallenge resolves:
\* setPlan(data), and setGenerated(null) after Load Latest; finally
\* setLoading(false).
PlanSettles(data) ==
    /\ ladder.pending \in {"save", "load", "complete"}
    /\ ladder' = LadderRender(
            [ladder EXCEPT !.plan = [some |-> TRUE, challenges |-> data],
                           !.generated = IF ladder.pending = "load" THEN NoLadder ELSE @,
                           !.loading = FALSE, !.pending = "none"])
    /\ LadderFrame

\* The request rejects: setError(message); finally setLoading(false).
LadderFails ==
    /\ ladder.pending # "none"
    /\ ladder' = LadderRender([ladder EXCEPT !.error = TRUE, !.loading = FALSE,
                                             !.pending = "none"])
    /\ LadderFrame

NextLadder ==
    \/ OnGenerate
    \/ \E ws \in GeneratedWeeks : GenerateSettles(ws)
    \/ OnSave
    \/ OnLoadLatest
    \/ \E i \in 1..MaxChallenges : OnComplete(i)
    \/ \E data \in Plans : PlanSettles(data)
    \/ LadderFails

----------------------------------------------------------------------------
\* searchAddress (api/settings.ts), with a clock in milliseconds

\* The queries typed, and the length of each once trimmed.
Queries == {"", " ab ", "abc", " main st "}

TrimmedLength(q) ==
    CASE q = "" -> 0
      [] q = " ab " -> 2
      [] q = "abc" -> 3
      [] q = " main st " -> 7

\* The time that may pass between two things that happen.
Delays == {150, 400}

\* `let debounceTimer = null`; no call made, no timeout pending.
SearchInit == [now |-> 0, debounceTimer |-> 0, pending |-> <<>>, calls |-> <<>>]

CallIds == 1..Len(search.calls)

\* Time passes.
Advance(d) ==
    /\ search.now + d <= MaxTime
    /\ search' = [search EXCEPT !.now = @ + d]
    /\ SearchFrame

\* query.trim().length < 3
TooShort(q) == TrimmedLength(q) < MinQueryLength

\* searchAddress(query): the executor of the promise it returns.  The timeout
\* of call n is named n.
SearchAddress(q) ==
    /\ Len(search.calls) < MaxCalls
    /\ LET n == Len(search.calls) + 1
           cleared == IF search.debounceTimer # 0
                      THEN ClearTimeout(search.pending, search.debounceTimer)
                      ELSE search.pending
       IN  search' =
              IF TooShort(q)
              THEN [search EXCEPT
                        !.pending = cleared,
                        !.calls = Append(@, [at |-> search.now, query |-> q,
                                             request |-> "none", promise |-> "empty"])]
              ELSE [search EXCEPT
                        !.pending = Append(cleared, n),
                        !.debounceTimer = n,
                        !.calls = Append(@, [at |-> search.now, query |-> q,
                                             request |-> "none", promise |-> "pending"])]
    /\ SearchFrame

\* The timeout of call n fires, 400 ms after the call or later: fetch(...).
DebounceFires(n) ==
    /\ n \in Range(search.pending)
    /\ search.now >= search.calls[n].at + DebounceDelay
    /\ search' = [search EXCEPT !.pending = ClearTimeout(@, n),
                                !.calls[n].request = "sent"]
    /\ SearchFrame

\* The fetch of call n settles: suggestions when the response is ok and its
\* JSON is a list, [] when it is not ok or when anything throws.
GeocodeSettles(n, outcome) ==
    /\ search.calls[n].request = "sent"
    /\ search' = [search EXCEPT
                    !.calls[n].request = "done",
                    !.calls[n].promise = IF outcome = "ok" THEN "suggestions" ELSE "empty"]
    /\ SearchFrame

NextSearch ==
    \/ \E d \in Delays : Advance(d)
    \/ \E q \in Queries : SearchAddress(q)
    \/ \E n \in CallIds : DebounceFires(n)
    \/ \E n \in CallIds, outcome \in {"ok", "notok", "throws"} : GeocodeSettles(n, outcome)

----------------------------------------------------------------------------
\* raceBrowserLocations (components/LocationUpdate.tsx)

\* The two getCurrentPosition requests, the positions one may report and the
\* codes of a GeolocationPositionError.
Requests == {"low", "high"}
Positions == {"wifi", "gps"}
ErrorCodes == {"PERMISSION_DENIED", "POSITION_UNAVAILABLE", "TIMEOUT"}

\* Before the call: no promise yet.
RaceInit ==
    [requests |-> [r \in Requests |-> "idle"], resolved |-> FALSE, failCount |-> 0,
     promise |-> "none", settled |-> 0]

\* resolve(v) or reject(v): the first call settles the promise, a later one
\* changes nothing.
Settle(c, outcome) ==
    [c EXCEPT !.promise = IF @ = "pending" THEN outcome ELSE @,
              !.settled = @ + 1]

\* raceBrowserLocations(): resolved = false, failCount = 0, and both
\* requests are made.
RaceBrowserLocations ==
    /\ \A r \in Requests : race.requests[r] # "pending"
    /\ race' = [requests |-> [r \in Requests |-> "pending"], resolved |-> FALSE,
                failCount |-> 0, promise |-> "pending", settled |-> 0]
    /\ RaceFrame

\* An onSuccess with no `if (resolved) return`.
OnSuccessUnguarded(c, pos) == Settle([c EXCEPT !.resolved = TRUE], pos)

\* onSuccess(pos)
OnSuccess(c, pos) ==
    IF c.resolved THEN c
    ELSE Settle([c EXCEPT !.resolved = TRUE], pos)

\* onError(err)
OnError(c, code) ==
    IF c.resolved THEN c
    ELSE IF code = "PERMISSION_DENIED"
         THEN Settle([c EXCEPT !.resolved = TRUE], code)
         ELSE LET d == [c EXCEPT !.failCount = @ + 1]
              IN  IF d.failCount >= Total
                  THEN Settle([d EXCEPT !.resolved = TRUE], code)
                  ELSE d

\* Request r reports a position.
PositionSuccess(r, pos) ==
    /\ race.requests[r] = "pending"
    /\ race' = [OnSuccess(race, pos) EXCEPT !.requests[r] = pos]
    /\ RaceFrame

\* Request r reports an error.
PositionError(r, code) ==
    /\ race.requests[r] = "pending"
    /\ race' = [OnError(race, code) EXCEPT !.requests[r] = code]
    /\ RaceFrame

NextRace ==
    \/ RaceBrowserLocations
    \/ \E r \in Requests, pos \in Positions : PositionSuccess(r, pos)
    \/ \E r \in Requests, code \in ErrorCodes : PositionError(r, code)

----------------------------------------------------------------------------
\* detectLocation and getIPLocation (components/LocationUpdate.tsx)

\* What the IP lookup may come to: coordinates, a response that is not ok, a
\* response with no coordinates, or the abort after 8 s (or a network error).
IpOutcomes == {"ok", "notok", "nocoords", "aborted"}

\* A raceBrowserLocations() just called.
FreshRace ==
    [requests |-> [r \in Requests |-> "pending"], resolved |-> FALSE,
     failCount |-> 0, promise |-> "pending", settled |-> 0]

\* detectLocation not called yet.
DetectInit ==
    [phase |-> "idle", geo |-> RaceInit, ceiling |-> "none",
     permissionDenied |-> FALSE, why |-> "none",
     result |-> [kind |-> "none", approximate |-> FALSE]]

\* A catch block that takes every failure for a refusal.
CaughtDeniedAlways(err) == TRUE

\* err instanceof GeolocationPositionError && err.code === err.PERMISSION_DENIED
\* (the error of the ceiling is a plain Error).
CaughtDenied(err) == err = "PERMISSION_DENIED"

\* The fallback starts: getIPLocation() is awaited.
FallBack(d, err) ==
    [d EXCEPT !.phase = "ip", !.permissionDenied = CaughtDenied(err), !.why = err]

\* detectLocation(): with navigator.geolocation the browser race is awaited
\* against the 12-second ceiling, without it the IP lookup starts at once.
DetectLocation(api) ==
    /\ detect.phase \in {"idle", "done"}
    /\ \A r \in Requests : detect.geo.requests[r] # "pending"
    /\ detect.ceiling # "pending"
    /\ detect' = IF api
                 THEN [DetectInit EXCEPT !.phase = "browser", !.geo = FreshRace,
                                         !.ceiling = "pending"]
                 ELSE [FallBack(DetectInit, "unavailable") EXCEPT !.geo = detect.geo]
    /\ DetectFrame

\* What detectLocation does when the promise of the browser race settles
\* while it is awaited: it returns the position, or falls back.
AfterRace(d) ==
    IF d.phase # "browser" \/ d.geo.promise = "pending" THEN d
    ELSE IF d.geo.promise \in Positions
         THEN [d EXCEPT !.phase = "done",
                        !.result = [kind |-> "browser", approximate |-> FALSE]]
         ELSE FallBack(d, d.geo.promise)

\* A request of the race reports a position.
GeoSuccess(r, pos) ==
    /\ detect.geo.requests[r] = "pending"
    /\ detect' = AfterRace([detect EXCEPT
                    !.geo = [OnSuccess(detect.geo, pos) EXCEPT !.requests[r] = pos]])
    /\ DetectFrame

\* A request of the race reports an error.
GeoError(r, code) ==
    /\ detect.geo.requests[r] = "pending"
    /\ detect' = AfterRace([detect EXCEPT
                    !.geo = [OnError(detect.geo, code) EXCEPT !.requests[r] = code]])
    /\ DetectFrame

\* The 12-second timeout fires: reject(new Error('_timeout_')), which ends
\* the await when the race has not settled.
CeilingElapses ==
    /\ detect.ceiling = "pending"
    /\ detect' = IF detect.phase = "browser"
                 THEN [FallBack(detect, "_timeout_") EXCEPT !.ceiling = "fired"]
                 ELSE [detect EXCEPT !.ceiling = "fired"]
    /\ DetectFrame

\* A fallback result that is not marked.
IpResultUnmarked == [kind |-> "ip", approximate |-> FALSE]

\* return { ...ip, approximate: true }
IpResult == [kind |-> "ip", approximate |-> TRUE]

\* getIPLocation() settles: its coordinates are returned, or the error for a
\* refused permission, or the general one, is thrown.
IpSettles(outcome) ==
    /\ detect.phase = "ip"
    /\ detect' = [detect EXCEPT
                    !.phase = "done",
                    !.result = IF outcome = "ok" THEN IpResult
                               ELSE IF detect.permissionDenied
                                    THEN [kind |-> "permission denied", approximate |-> FALSE]
                                    ELSE [kind |-> "could not detect", approximate |-> FALSE]]
    /\ DetectFrame

NextDetect ==
    \/ \E api \in BOOLEAN : DetectLocation(api)
    \/ \E r \in Requests, pos \in Positions : GeoSuccess(r, pos)
    \/ \E r \in Requests, code \in ErrorCodes : GeoError(r, code)
    \/ CeilingElapses
    \/ \E outcome \in IpOutcomes : IpSettles(outcome)

----------------------------------------------------------------------------
\* AppLayout, which wraps every route (the login page too), with Login and
\* the logout handler

\* The application has not rendered yet; nobody has logged in or out.
LayoutInit == [mounted |-> FALSE, session |-> "none"]

\* useGlobalWs, the effect on mount: connectWs().
LayoutMount ==
    /\ ~layout.mounted
    /\ ConnectWs
    /\ layout' = [layout EXCEPT !.mounted = TRUE]
    /\ LayoutFrame

\* useGlobalWs, the cleanup on unmount: disconnectWs().
LayoutUnmount ==
    /\ layout.mounted
    /\ DisconnectWs
    /\ layout' = [layout EXCEPT !.mounted = FALSE]
    /\ LayoutFrame

\* Login.handleSubmit with a login that succeeds: setToken(res.access_token),
\* then navigate(from).
Login ==
    /\ layout.mounted
    /\ SetToken
    /\ layout' = [layout EXCEPT !.session = "loggedIn"]
    /\ UNCHANGED <<card, hist, chat, ladder, search, race, detect, mood>>

\* handleLogout / doLogout: clearToken(), then navigate('/login'), which
\* unmounts the page shown, so that a useRealtime consumer unsubscribes; the
\* layout stays mounted and nothing calls disconnectWs.
Logout ==
    /\ layout.mounted
    /\ token
    /\ token' = FALSE
    /\ route' = [route EXCEPT !.item = "null"]
    /\ listeners' = <<>>
    /\ unsubscribed' = unsubscribed \cup Range(listeners)
    /\ Did("logout", "removed")
    /\ UNCHANGED <<stopped, created, socket, sockets, reconnectTimer, timers,
                   pingInterval, intervals>>
    /\ NoSend
    /\ NoMessage
    /\ layout' = [layout EXCEPT !.session = "loggedOut"]
    /\ UNCHANGED <<card, hist, chat, ladder, search, race, detect, mood>>

\* A page that uses useRealtime is opened; ProtectedRoute lets it render
\* when a token is stored.
PageOpens(l) ==
    /\ layout.mounted
    /\ token
    /\ UseRealtimeMount(l)
    /\ UNCHANGED uiVars

\* The application with its pages.
NextLayout ==
    \/ LayoutMount
    \/ LayoutUnmount
    \/ Login
    \/ Logout
    \/ \E s \in SocketIds : SocketOpen(s) /\ UNCHANGED uiVars
    \/ \E s \in SocketIds, err \in BOOLEAN : SocketClosed(s, err) /\ UNCHANGED uiVars
    \/ TimerFire /\ UNCHANGED uiVars
    \/ \E i \in intervals : PingTick(i) /\ UNCHANGED uiVars
    \/ \E l \in ListenerIds : PageOpens(l)
    \/ \E l \in ListenerIds : UseRealtimeUnmount(l) /\ UNCHANGED uiVars

\* The application when the user opens no page that uses useRealtime.
NextLayoutOnly ==
    \/ LayoutMount
    \/ LayoutUnmount
    \/ Login
    \/ Logout
    \/ \E s \in SocketIds : SocketOpen(s) /\ UNCHANGED uiVars
    \/ \E s \in SocketIds, err \in BOOLEAN : SocketClosed(s, err) /\ UNCHANGED uiVars
    \/ TimerFire /\ UNCHANGED uiVars
    \/ \E i \in intervals : PingTick(i) /\ UNCHANGED uiVars

----------------------------------------------------------------------------
\* MoodCheckinForm

\* The buddies the form offers.
Buddies == 1..MaxBuddies

\* What the user can type as a note ("" is the initial value).
Notes == {"", "low today"}

\* The fields handleSubmit resets: note stands for the four check-in
\* fields (moodScore, tagsInput, note, wantsCompany), reset together.
FieldsInit == [note |-> "", sendSos |-> FALSE, broadcast |-> FALSE,
               selectedBuddyIds |-> {}]

\* No SOS request has been made by the submission.
NoSos == [sent |-> FALSE, broadcast |-> FALSE, buddy_ids |-> {}, has_ids |-> FALSE]

\* The form as first rendered.  args is what the handleSubmit in flight
\* closed over, checkin and sos what it has asked of the API so far, op the
\* step that ran last.
MoodInit ==
    [fields |-> FieldsInit, submitting |-> FALSE, error |-> "none",
     success |-> "none", phase |-> "idle", args |-> FieldsInit,
     checkin |-> "none", sos |-> NoSos, onSubmitted |-> FALSE, op |-> "none"]

\* A step of the form: the notification of the parent is per step.
MoodDid(m, name) == [m EXCEPT !.op = name, !.onSubmitted = FALSE]

\* The user edits the note.
SetNote(v) ==
    /\ v # mood.fields.note
    /\ mood' = MoodDid([mood EXCEPT !.fields.note = v], "edit")
    /\ MoodFrame

\* The 'send SOS' checkbox.
SetSendSos(b) ==
    /\ b # mood.fields.sendSos
    /\ mood' = MoodDid([mood EXCEPT !.fields.sendSos = b], "edit")
    /\ MoodFrame

\* The broadcast checkbox, shown when sendSos: checking it empties the
\* selection.
SetBroadcast(b) ==
    /\ mood.fields.sendSos
    /\ b # mood.fields.broadcast
    /\ mood' = MoodDid([mood EXCEPT !.fields.broadcast = b,
                                    !.fields.selectedBuddyIds =
                                        IF b THEN {} ELSE @], "edit")
    /\ MoodFrame

\* toggleBuddy(id), on a checkbox shown when sendSos and not broadcast.
ToggleBuddy(id) ==
    /\ mood.fields.sendSos
    /\ ~mood.fields.broadcast
    /\ mood' = MoodDid([mood EXCEPT !.fields.selectedBuddyIds =
                            IF id \in @ THEN @ \ {id} ELSE @ \cup {id}], "edit")
    /\ MoodFrame

\* Options that carry the selected buddies with the broadcast flag.
SosOptionsBoth(a) ==
    [sent |-> TRUE, broadcast |-> a.broadcast,
     buddy_ids |-> {1}, has_ids |-> TRUE]

\* sosOptions: broadcast = true, or else buddy_ids when some are selected,
\* or else neither.
SosOptions(a) ==
    IF a.broadcast
    THEN [sent |-> TRUE, broadcast |-> TRUE, buddy_ids |-> {}, has_ids |-> FALSE]
    ELSE IF a.selectedBuddyIds # {}
    THEN [sent |-> TRUE, broadcast |-> FALSE, buddy_ids |-> a.selectedBuddyIds,
          has_ids |-> TRUE]
    ELSE [sent |-> TRUE, broadcast |-> FALSE, buddy_ids |-> {}, has_ids |-> FALSE]

\* A finally that leaves submitting as it is.
FinallyNothing(m) == m

\* finally: setSubmitting(false); the handler has ended.
Finally(m) == [m EXCEPT !.submitting = FALSE, !.phase = "idle"]

\* The end of the try block: the fields go back to their initial values and
\* onSubmitted() is called.
ResetForm(m) == [m EXCEPT !.fields = FieldsInit, !.onSubmitted = TRUE]

\* handleSubmit up to `await createCheckin(data)`; the button is disabled
\* while submitting.  createCheckin throws before any request when no token
\* is stored.
HandleSubmitCheckin ==
    /\ ~mood.submitting
    /\ mood' = [MoodDid(mood, "submit") EXCEPT
                    !.error = "none", !.success = "none", !.submitting = TRUE,
                    !.phase = "checkin", !.args = mood.fields,
                    !.checkin = IF GetToken THEN "pending" ELSE "rejected",
                    !.sos = NoSos]
    /\ MoodFrame

\* createCheckin settles and handleSubmit goes on to its next await or to
\* its end; createManualSos throws before any request when no token is
\* stored.
CheckinSettles(ok) ==
    /\ mood.phase = "checkin"
    /\ ok => mood.checkin = "pending"
    /\ LET m == MoodDid(mood, IF ok THEN "checkinOk" ELSE "checkinFailed")
       IN  mood' =
            IF ~ok
            THEN Finally([m EXCEPT !.checkin = "failed", !.error = "checkin"])
            ELSE IF ~mood.args.sendSos
            THEN Finally(ResetForm([m EXCEPT !.checkin = "created",
                                             !.success = "checkin"]))
            ELSE IF GetToken
            THEN [m EXCEPT !.checkin = "created", !.phase = "sos",
                           !.sos = SosOptions(mood.args)]
            ELSE Finally(ResetForm([m EXCEPT !.checkin = "created",
                                             !.success = "checkin",
                                             !.error = "sos"]))
    /\ MoodFrame

\* createManualSos settles: the inner try or its catch, the reset, finally.
SosSettles(ok) ==
    /\ mood.phase = "sos"
    /\ LET m == MoodDid(mood, IF ok THEN "sosOk" ELSE "sosFailed")
       IN  mood' =
            IF ok
            THEN Finally(ResetForm([m EXCEPT !.success = "checkin+sos"]))
            ELSE Finally(ResetForm([m EXCEPT !.success = "checkin",
                                             !.error = "sos"]))
    /\ MoodFrame

NextMood ==
    \/ \E v \in Notes : SetNote(v)
    \/ \E b \in BOOLEAN : SetSendSos(b)
    \/ \E b \in BOOLEAN : SetBroadcast(b)
    \/ \E id \in Buddies : ToggleBuddy(id)
    \/ HandleSubmitCheckin
    \/ \E ok \in BOOLEAN : CheckinSettles(ok)
    \/ \E ok \in BOOLEAN : SosSettles(ok)

----------------------------------------------------------------------------
\* The pages and components before anything has happened in them.
UiInit ==
    /\ card = CardInit
    /\ hist = HistInit
    /\ route = RouteInit(token)
    /\ chat = ChatInit
    /\ ladder = LadderInit
    /\ search = SearchInit
    /\ race = RaceInit
    /\ detect = DetectInit
    /\ mood = MoodInit
    /\ layout = LayoutInit

Init ==
    /\ token \in BOOLEAN
    /\ socket = 0
    /\ sockets = <<>>
    /\ reconnectTimer = 0
    /\ timers = <<>>
    /\ pingInterval = 0
    /\ intervals = {}
    /\ listeners = <<>>
    /\ lastSend = [sock |-> 0, state |-> "NONE"]
    /\ lastData = "NONE"
    /\ invoked = <<>>
    /\ missed = {}
    /\ notified = {}
    /\ refetch = {}
    /\ handlerThrew = FALSE
    /\ lastOp = <<"none", "none">>
    /\ unsubscribed = {}
    /\ stopped = FALSE
    /\ created = 0
    /\ UiInit

Next ==
    \/ ConnectWs /\ UNCHANGED uiVars
    \/ DisconnectWs /\ UNCHANGED uiVars
    \/ \E s \in SocketIds : SocketOpen(s) /\ UNCHANGED uiVars
    \/ \E s \in SocketIds, err \in BOOLEAN : SocketClosed(s, err) /\ UNCHANGED uiVars
    \/ TimerFire /\ UNCHANGED uiVars
    \/ \E i \in intervals : PingTick(i) /\ UNCHANGED uiVars
    \/ \E s \in SocketIds, d \in Payloads : OnMessage(s, d) /\ UNCHANGED uiVars
    \/ \E l \in ListenerIds : UseRealtimeMount(l) /\ UNCHANGED uiVars
    \/ \E l \in ListenerIds : UseRealtimeUnmount(l) /\ UNCHANGED uiVars
    \/ SetToken /\ RouteFrame
    \/ ClearToken /\ RouteFrame

Spec == Init /\ [][Next]_vars

\* The session the realtime layer is meant to survive: the token, once stored,
\* stays stored and disconnectWs() is not called.  The browser fires a
\* timeout that is pending.
NextSession ==
    \/ ConnectWs /\ UNCHANGED uiVars
    \/ \E s \in SocketIds : SocketOpen(s) /\ UNCHANGED uiVars
    \/ \E s \in SocketIds, err \in BOOLEAN : SocketClosed(s, err) /\ UNCHANGED uiVars
    \/ TimerFire /\ UNCHANGED uiVars
    \/ \E i \in intervals : PingTick(i) /\ UNCHANGED uiVars
    \/ \E s \in SocketIds, d \in Payloads : OnMessage(s, d) /\ UNCHANGED uiVars
    \/ \E l \in ListenerIds : UseRealtimeMount(l) /\ UNCHANGED uiVars
    \/ \E l \in ListenerIds : UseRealtimeUnmount(l) /\ UNCHANGED uiVars
    \/ SetToken /\ RouteFrame

SpecCard == Init /\ [][NextCard]_vars

SpecHist == Init /\ [][NextHist]_vars

SpecRoute == Init /\ [][NextRoute]_vars

SpecChat == Init /\ [][NextChat]_vars

SpecLadder == Init /\ [][NextLadder]_vars

SpecSearch == Init /\ [][NextSearch]_vars

\* A timeout that is due fires, and a request that was sent is answered.
SpecSearchFair ==
    /\ Init
    /\ [][NextSearch]_vars
    /\ WF_vars(\E n \in CallIds : DebounceFires(n))
    /\ WF_vars(\E n \in CallIds, outcome \in {"ok", "notok", "throws"} :
                    GeocodeSettles(n, outcome))

SpecRace == Init /\ [][NextRace]_vars

SpecDetect == Init /\ [][NextDetect]_vars

SpecSession == Init /\ [][NextSession]_vars /\ WF_vars(TimerFire /\ UNCHANGED uiVars)

SpecMood == Init /\ [][NextMood]_vars

SpecLayout == Init /\ [][NextLayout]_vars

\* The browser fires a timeout that is pending.
SpecLayoutOnly ==
    Init /\ [][NextLayoutOnly]_vars /\ WF_vars(TimerFire /\ UNCHANGED uiVars)

----------------------------------------------------------------------------
\* Properties

\* The WebSockets that are CONNECTING or OPEN.
LiveSockets == {s \in SocketIds : sockets[s] \in Live}

\* The current socket is CONNECTING or OPEN (written out, not by the guard).
CurrentLive == socket # 0 /\ sockets[socket] \in {"CONNECTING", "OPEN"}

\* C1: in every reachable state at most one WebSocket created by the module
\* is CONNECTING or OPEN, and it is the one the module variable names.
C1_AtMostOneLive ==
    /\ Cardinality(LiveSockets) <= 1
    /\ \A s \in LiveSockets : s = socket

\* A new socket is live while the one it replaced has not finished closing.
C1_Witness ==
    /\ CurrentLive
    /\ \E s \in SocketIds : s # socket /\ sockets[s] = "CLOSING"

\* C2: after disconnectWs() and until connectWs() is called again, the old
\* socket has been asked to close, no reconnect timer is pending and no
\* WebSocket is CONNECTING or OPEN (none has been created).
C2_NoReconnectAfterDisconnect ==
    stopped =>
        /\ timers = <<>>
        /\ LiveSockets = {}
        /\ created = 0

C5_OnePendingTimer == Len(timers) <= 1

\* The number of times listener l was called for the message just handled.
Calls(l) == Cardinality({i \in 1..Len(invoked) : invoked[i] = l})

\* C6: every JSON-parsable message received on an open connection is
\* delivered to every listener registered at that moment, exactly once.
C6_EveryListenerOnce ==
    (lastOp = <<"message", "parsed">>) =>
        /\ missed = {}
        /\ \A l \in Range(listeners) : Calls(l) = 1

\* C7: a listener whose unsubscribe function has been called is not invoked
\* for any later message; unsubscribing removes that listener and no other;
\* and every event (a JSON object, the shape of WsEvent) received later is
\* still delivered once to each listener that remains registered.
C7_UnsubscribeOnlyThat ==
    [][/\ \A l \in ListenerIds :
            (l \in Range(listeners) /\ l \notin Range(listeners')) =>
                listeners' = SelectSeq(listeners, LAMBDA x : x # l)
       /\ lastOp'[1] = "message" =>
            /\ Range(invoked') \cap unsubscribed = {}
            /\ Range(invoked') \subseteq Range(listeners)
            /\ JsonParse(lastData').type = "object" => invoked' = listeners]_vars

\* Of two listeners one has unsubscribed, and an event has just been delivered
\* to the other.
C7_Witness ==
    /\ lastOp = <<"message", "parsed">>
    /\ JsonParse(lastData).type = "object"
    /\ unsubscribed # {}
    /\ invoked # <<>>
    /\ invoked = listeners

\* C8: a message whose data is not valid JSON does not make the handler
\* throw, reaches no listener, and leaves the connection, the timers and the
\* listener set unchanged.
C8_MalformedDropped ==
    [][(lastOp'[1] = "message" /\ ~JsonParse(lastData').ok) =>
        /\ ~handlerThrew'
        /\ invoked' = <<>>
        /\ notified' = {}
        /\ UNCHANGED <<socket, sockets, reconnectTimer, timers, pingInterval,
                       intervals, listeners>>]_vars

\* A frame that is not JSON has just been received while listeners are
\* registered.
C8_Witness ==
    /\ lastOp = <<"message", "dropped">>
    /\ lastData = "pong"
    /\ listeners # <<>>

\* The step was a call of connectWs: by the application, by a mounting
\* useRealtime consumer, or by a reconnect timer that fired.
ConnectCalled == lastOp'[1] \in {"connectWs", "mount", "timer"}

\* C9: connectWs() called while no token is stored creates no WebSocket and
\* schedules no timer: socket, sockets, timer handle, keep-alive handle and
\* intervals stay as they were (a timer that fired is no longer pending, and
\* nothing else changes among the timers); so no step creates a WebSocket
\* while the token is absent.
C9_NoTokenNoConnection ==
    [][/\ (ConnectCalled /\ ~token) =>
            /\ lastOp'[2] \in {"notoken", "already"}
            /\ UNCHANGED <<socket, sockets, reconnectTimer, pingInterval, intervals>>
            /\ timers' = IF lastOp'[1] = "timer" THEN Tail(timers) ELSE timers
            /\ lastOp'[1] # "mount" => listeners' = listeners
       /\ Len(sockets') > Len(sockets) => token]_vars

\* A reconnect timer has fired while no token was stored and the socket was
\* closed, and connectWs returned without creating anything.
C9_Witness ==
    /\ lastOp = <<"timer", "notoken">>
    /\ ~token
    /\ ~CurrentLive

\* C10: the open event of a socket starts a keep-alive interval; an interval
\* runs only for the current socket and only while it is OPEN, so none is
\* left running once that connection has closed or disconnectWs() has been
\* called; and 'ping' is sent only on a socket that is OPEN.
C10_KeepAliveOnlyWhileOpen ==
    [][/\ \A s \in SocketIds :
            (sockets[s] = "CONNECTING" /\ sockets'[s] = "OPEN") =>
                (s \in intervals' /\ pingInterval' = s)
       /\ \A i \in intervals' :
            /\ i = socket'
            /\ i = pingInterval'
            /\ sockets'[i] = "OPEN"
       /\ lastOp'[1] \in {"close", "disconnectWs"} => intervals' = {}
       /\ lastSend'.sock # 0 =>
            /\ lastSend'.sock = socket
            /\ sockets[socket] = "OPEN"
            /\ lastSend'.state = "OPEN"]_vars

\* An open connection with a running keep-alive has just closed, and the
\* interval was cleared.
C10_Witness ==
    /\ lastOp = <<"close", "cleared">>
    /\ intervals = {}
    /\ socket # 0
    /\ sockets[socket] = "CLOSED"

\* C11: in a session in which the token stays stored and disconnectWs() is
\* not called, whenever a connection has closed or failed, a WebSocket is
\* CONNECTING or OPEN again later (as long as the bound on the number of
\* WebSockets leaves room for one).
C11_AlwaysReconnects ==
    (lastOp[1] = "close" /\ token /\ Len(sockets) < MaxSockets) ~> CurrentLive

\* The last WebSocket the bound allows was created by a reconnect timer, after
\* the one before it had closed.
C11_Witness ==
    /\ lastOp = <<"timer", "created">>
    /\ Len(sockets) = MaxSockets
    /\ \A s \in 1..(MaxSockets - 1) : sockets[s] = "CLOSED"
    /\ timers = <<>>

\* C12: whenever respondToSos is called the card displays the alert as not
\* CLOSED, and Accept / Decline can be used only while it does; while the
\* alert is displayed open a recipient who has responded can respond again,
\* and a response the server accepts replaces the one before.
C12_NoResponseOnceClosed ==
    [][/\ card'.shownAtSubmit # "CLOSED"
       /\ (card'.pending # card.pending /\ card'.pending # "none") =>
            card.alert_status # "CLOSED"
       /\ (ENABLED HandleRespond("ACCEPTED")) =>
            (card.alert_status # "CLOSED" /\ card.showForm /\ ~card.loading)
       /\ (~IsClosed /\ HasResponded /\ card.showForm /\ ~card.loading) =>
            ENABLED HandleRespond("DECLINED")
       /\ (card.pending # "none" /\ card'.pending = "none"
                /\ card'.error = "none") =>
            card'.srvMy = card.pending]_vars

\* The recipient responded while the alert was displayed open, and the alert
\* is now displayed CLOSED with the form still switched on.
C12_Witness ==
    /\ card.alert_status = "CLOSED"
    /\ card.showForm
    /\ card.my_status = "DECLINED"
    /\ card.shownAtSubmit = "OPEN"

\* C13: an alert displayed as CLOSED after a successful closeSos is displayed
\* as CLOSED after every later update of the list, whatever request the
\* update answers; and Close is offered only for an alert displayed as not
\* CLOSED.
C13_ClosedIsTerminal ==
    [][/\ \A a \in hist.closedShown :
            hist.alerts[a] = "CLOSED" => hist'.alerts[a] = "CLOSED"
       /\ \A a \in AlertIds :
            (ENABLED HandleClose(a)) => hist.alerts[a] \notin {"CLOSED", "ABSENT"}]_vars

\* The name of the event just received, "" when what was received is not an
\* object with a key 'event'.
ReceivedEvent == IF JsonParse(lastData').type = "object" THEN JsonParse(lastData').event ELSE ""

\* The consumers registered when the message arrived whose eventNames hold
\* the name n: BuddyInbox listens for sos.created and sos.closed, SosHistory
\* for sos.recipient_updated and sos.closed.
Interested(n) ==
    {l \in Range(listeners) :
        \/ l % 2 = 1 /\ n \in {"sos.created", "sos.closed"}
        \/ l % 2 = 0 /\ n \in {"sos.recipient_updated", "sos.closed"}}

C16_SubmitOutcome ==
    [][/\ chat'.op = "submit" =>
            (chat'.loading /\ chat'.message = chat.message /\ chat'.error = "none")
       /\ chat'.op = "translated" =>
            /\ chat'.result = "answer"
            /\ chat'.submit = "reloading"
            /\ chat'.message = chat.message
            /\ chat'.loading
       /\ chat'.op = "submitted" =>
            /\ chat.submit = "reloading"
            /\ chat.result = "answer" \/ chat.result = "old"
            /\ chat'.history \in {"loaded", "empty"}
            /\ chat'.message = <<>>
            /\ ~chat'.loading
       /\ chat'.op = "translateFailed" =>
            /\ chat'.message = chat.message
            /\ chat'.error = "translate"
            /\ chat'.result = chat.result
            /\ ~chat'.loading
       /\ (chat'.submit # "idle") => chat'.loading]_vars

\* A message typed while the request was out is still in the field after
\* translateText has failed.
C16_Witness ==
    /\ chat.op = "translateFailed"
    /\ chat.message = <<"hello">>
    /\ chat.error = "translate"
    /\ ~chat.loading

\* C17: a step of startRecording leaves the message field empty; the stop of
\* a recorder sets recording to false and, when transcription starts, the
\* tracks of that recorder's stream have been stopped; a transcription that
\* succeeds leaves the transcript at the end of the message field; when a
\* transcription ends, with or without success, transcribing is false; and
\* recording and transcribing are never both true.
C17_RecordThenTranscribe ==
    [][/\ chat'.op = "startRecording" => chat'.message = <<>>
       /\ chat'.op = "onstop" =>
            /\ ~chat'.recording
            /\ chat'.transcribing => ~chat'.recorders[chat'.rec].live
       /\ chat'.op = "transcribed" =>
            /\ chat'.message # <<>>
            /\ chat'.message[Len(chat'.message)] = "spoken"
            /\ ~chat'.transcribing
       /\ chat'.op = "transcribeFailed" => ~chat'.transcribing
       /\ ~(chat'.recording /\ chat'.transcribing)]_vars

\* The challenges on display, and those of them that are completed.
Shown18 == DisplayedChallenges(ladder)
Completed18 == {i \in 1..Len(Shown18) : Shown18[i].completed}

\* Challenge i comes before challenge j in ascending week order (challenges
\* of the same week keep the order they came in).
Precedes18(i, j) ==
    \/ Shown18[i].week < Shown18[j].week
    \/ Shown18[i].week = Shown18[j].week /\ i < j

\* C18: XP is 100 times the number of completed challenges; streak is the
\* number of challenges that are completed and have only completed
\* challenges before them in ascending week order; so streak * 100 <= XP;
\* and both are 0 when no challenge is completed or no plan is loaded.
C18_XpAndStreak ==
    /\ ladder.xp = 100 * Cardinality(Completed18)
    /\ ladder.streak =
          Cardinality({i \in Completed18 :
                          \A j \in 1..Len(Shown18) : Precedes18(j, i) => j \in Completed18})
    /\ ladder.streak * 100 <= ladder.xp
    /\ (Completed18 = {} \/ ~ladder.plan.some) => (ladder.xp = 0 /\ ladder.streak = 0)

\* A plan whose challenges are not in week order: week 2 is completed, week 1
\* is not, so the streak is 0 and XP is 100.
C18_Witness ==
    /\ ladder.plan.some
    /\ Len(ladder.plan.challenges) >= 2
    /\ ladder.plan.challenges[1] = [week |-> 2, completed |-> TRUE]
    /\ ladder.plan.challenges[2] = [week |-> 1, completed |-> FALSE]
    /\ ladder.xp = 100
    /\ ladder.streak = 0

\* C19: at most one debounce timeout is pending; a call leaves pending no
\* timeout but its own; of two calls in a row made less than 400 ms apart the
\* first never issues a geocoding request; and a query of fewer than 3
\* characters once trimmed resolves to [] at once and issues no request.
C19_Debounced ==
    [][/\ Len(search'.pending) <= 1
       /\ Len(search'.calls) > Len(search.calls) =>
            Range(search'.pending) \subseteq {Len(search'.calls)}
       /\ \A i \in 1..(Len(search'.calls) - 1) :
            search'.calls[i + 1].at - search'.calls[i].at < 400 =>
                search'.calls[i].request = "none"
       /\ \A i \in 1..Len(search'.calls) :
            search'.calls[i].query \in {"", " ab "} =>
                /\ search'.calls[i].request = "none"
                /\ search'.calls[i].promise = "empty"]_vars

\* Three calls 150 ms apart: the last has issued its request, the two before
\* it have not and never will.
C19_Witness ==
    /\ Len(search.calls) = 3
    /\ search.calls[1].at = 0 /\ search.calls[2].at = 150 /\ search.calls[3].at = 300
    /\ \A i \in 1..3 : search.calls[i].query \in {"abc", " main st "}
    /\ search.calls[1].request = "none"
    /\ search.calls[2].request = "none"
    /\ search.calls[3].request = "sent"

\* The request whose callback the step runs, if the step is a callback.
Reported20(r) == race.requests[r] = "pending" /\ race'.requests[r] # "pending"

\* The other request of the two.
Other20(r) == IF r = "low" THEN "high" ELSE "low"

\* C20: resolve or reject is called at most once per call of
\* raceBrowserLocations; while the promise is pending, a position reported
\* by either request resolves it with that position, PERMISSION_DENIED
\* rejects it at once, and another error rejects it exactly when the other
\* request has failed already; once the promise is settled no callback
\* changes it.
C20_SettlesOnce ==
    [][/\ race'.settled <= 1
       /\ \A r \in Requests : Reported20(r) =>
            /\ race.promise # "pending" => race'.promise = race.promise
            /\ race.promise = "pending" =>
                 /\ race'.requests[r] \in {"wifi", "gps"} =>
                        race'.promise = race'.requests[r]
                 /\ race'.requests[r] = "PERMISSION_DENIED" =>
                        race'.promise = "PERMISSION_DENIED"
                 /\ race'.requests[r] \in {"POSITION_UNAVAILABLE", "TIMEOUT"} =>
                        race'.promise =
                            IF race.requests[Other20(r)] \in {"POSITION_UNAVAILABLE", "TIMEOUT"}
                            THEN race'.requests[r]
                            ELSE "pending"]_vars

\* The low-accuracy request timed out, the high-accuracy one then reported a
\* position, and the promise is resolved with it.
C20_Witness ==
    /\ race.requests["low"] = "TIMEOUT"
    /\ race.requests["high"] = "gps"
    /\ race.promise = "gps"
    /\ race.settled = 1

\* detectLocation ends in this step.
Ends21 == detect.phase # "done" /\ detect'.phase = "done"

\* A request of the browser race has reported PERMISSION_DENIED.
Denied21 == \E r \in {"low", "high"} : detect.geo.requests[r] = "PERMISSION_DENIED"

\* C21: detectLocation ends with the browser's position or goes on to the IP
\* lookup, which it starts whenever the browser race is not to be had, fails,
\* is refused or is overtaken by the ceiling; it ends with the 'permission
\* denied' error only when a request was refused and the IP lookup failed,
\* and does so whenever the refusal is what ended the race; a failed IP
\* lookup with no refusal ends with the 'could not detect' error; and a
\* result of the IP lookup is marked approximate.
C21_FallsBackToIp ==
    [][/\ (detect.phase = "browser" /\ detect'.phase # "browser") =>
            \/ detect'.phase = "done" /\ detect'.result.kind = "browser"
                    /\ \E r \in {"low", "high"} : detect'.geo.requests[r] \in {"wifi", "gps"}
            \/ detect'.phase = "ip"
       /\ (detect.phase \in {"idle", "done"} /\ detect'.phase # detect.phase) =>
            detect'.phase \in {"browser", "ip"}
       /\ Ends21 =>
            /\ detect'.result.kind \in {"ip", "permission denied", "could not detect"}
                    => detect.phase = "ip"
            /\ detect'.result.kind = "permission denied" => Denied21
            /\ (detect'.result.kind # "ip" /\ detect.phase = "ip"
                    /\ detect.why = "PERMISSION_DENIED") =>
                  detect'.result.kind = "permission denied"
            /\ (detect'.result.kind # "ip" /\ detect.phase = "ip" /\ ~Denied21) =>
                  detect'.result.kind = "could not detect"
            /\ detect'.result.kind = "ip" => detect'.result.approximate
            /\ detect'.result.kind = "browser" => ~detect'.result.approximate]_vars

\* The ceiling overtook the browser race, a request was refused only
\* afterwards, and the IP lookup gave the location.
C21_Witness ==
    /\ detect.phase = "done"
    /\ detect.why = "_timeout_"
    /\ detect.geo.promise = "PERMISSION_DENIED"
    /\ detect.result = [kind |-> "ip", approximate |-> TRUE]

\* C22: while the layout is mounted, once a login has stored the token a
\* WebSocket is CONNECTING or OPEN later on (or the layout has unmounted or
\* the user logged out first), with no page that uses useRealtime opened;
\* and the unmounting of the layout calls disconnectWs: the socket is asked
\* to close, the module forgets it, and no keep-alive is left.
C22_ConnectsAfterLogin ==
    /\ (layout.mounted /\ layout.session = "loggedIn" /\ token)
            ~> (CurrentLive \/ ~layout.mounted \/ ~token)
    /\ [][(layout.mounted /\ ~layout'.mounted) =>
            /\ socket' = 0
            /\ intervals' = {}
            /\ \A s \in SocketIds : sockets'[s] \notin {"CONNECTING", "OPEN"} \/ s # socket]_vars

\* C25: once logout has cleared the token, and until the next login, no
\* WebSocket created by the module is CONNECTING or OPEN.
C25_NoConnectionAfterLogout ==
    layout.session = "loggedOut" => LiveSockets = {}


\* C23: when a listener throws on a message (as the useRealtime listener
\* does on a JSON-valid payload that is not an object, such as null or a
\* number), the listeners registered after it are still called with it.
C23_ThrowDoesNotStopFanOut ==
    (/\ lastOp = <<"message", "parsed">>
     /\ \E l \in Range(invoked) : ListenerThrows(l, JsonParse(lastData)))
        => Range(listeners) \subseteq Range(invoked)


\* C24: at most one keep-alive interval runs; while the current socket is
\* OPEN (its open event ran onopen) an interval runs for it, so that the
\* close event of a socket that has been replaced leaves that interval
\* alone; and a new handle is stored in pingInterval only when the interval
\* of the handle it held has stopped.
C24_OneKeepAlive ==
    [][/\ Cardinality(intervals') <= 1
       /\ (socket' # 0 /\ sockets'[socket'] = "OPEN") => socket' \in intervals'
       /\ (lastOp'[1] = "close" /\ socket # 0 /\ sockets'[socket] = "OPEN")
            => intervals' = intervals
       /\ (pingInterval' # 0 /\ pingInterval' # pingInterval)
            => pingInterval \notin intervals]_vars


\* C26: an SOS request is made only by a submission whose check-in was
\* created, and never carries both broadcast = true and buddy_ids; when
\* createCheckin fails no SOS request is made, the fields keep their values
\* and the check-in error is shown; when the SOS fails after the check-in
\* the check-in is still reported submitted, the SOS error is shown, the
\* fields are reset and onSubmitted is called; and when the handler has
\* ended, submitting is false again.
C26_CheckinThenSos ==
    [][/\ mood'.sos.sent =>
            /\ mood'.checkin = "created"
            /\ ~(mood'.sos.broadcast /\ mood'.sos.has_ids)
            /\ mood'.sos.has_ids =>
                    (mood'.sos.buddy_ids = mood'.args.selectedBuddyIds
                        /\ mood'.sos.buddy_ids # {})
       /\ mood'.op = "checkinFailed" =>
            /\ ~mood'.sos.sent
            /\ mood'.fields = mood.fields
            /\ mood'.error = "checkin"
            /\ mood'.success = "none"
            /\ ~mood'.onSubmitted
       /\ mood'.op = "sosFailed" =>
            /\ mood'.success = "checkin"
            /\ mood'.error = "sos"
            /\ mood'.fields = FieldsInit
            /\ mood'.onSubmitted
       /\ mood'.op \in {"checkinOk", "sosOk", "sosFailed"} =>
            mood'.checkin = "created"
       /\ mood'.phase = "idle" => ~mood'.submitting
       /\ mood'.op \in {"checkinFailed", "sosOk", "sosFailed"} =>
            mood'.phase = "idle"]_vars

\* A submission with buddies selected had its check-in created, asked for
\* the SOS, and the SOS failed.
C26_Witness ==
    /\ mood.op = "sosFailed"
    /\ mood.sos.sent
    /\ mood.sos.has_ids
    /\ mood.checkin = "created"
    /\ ~mood.submitting


\* C27: every promise searchAddress returns settles: a call whose promise
\* is pending when its 400 ms have passed has its promise resolved later
\* on, also when a later call cancelled its timeout.
C27_EveryPromiseSettles ==
    \A n \in 1..MaxCalls :
        (/\ n \in CallIds
         /\ search.calls[n].promise = "pending"
         /\ search.now >= search.calls[n].at + DebounceDelay)
            ~> (n \in CallIds /\ search.calls[n].promise # "pending")

====
